---- MODULE Spec2Model ----
(***************************************************************************)
(* Model of memoryos-chromadb/updater.py (class Updater):                  *)
(*   - process_short_term_to_mid_term: eviction loop, page building with   *)
(*     continuity linking and meta-info propagation, thematic insertion,   *)
(*     cross-reference finalization;                                       *)
(*   - _update_linked_pages_meta_info: breadth-first meta propagation;     *)
(*   - _process_page_embedding_and_keywords: two concurrent tasks joined;  *)
(*   - update_long_term_from_analysis: profile and knowledge lines.        *)
(* The short-term store, the mid-term store and the LLM utilities are      *)
(* collaborators; they are modelled from their documented interface.       *)
(*                                                                         *)
(* Encoding: Python None is 0; page ids and meta texts are positive        *)
(* integers; a page object is an index into the arena `pages` (Python      *)
(* object identity), its "page_id" field is the generated id.              *)
(***************************************************************************)
EXTENDS Integers, Sequences, FiniteSets

VARIABLES
    stm,                  \* short_term_memory: FIFO of QA dicts
    nextTurn,             \* number of the next QA pair handed to short-term memory
    pages,                \* arena of page dicts created by line 125 (object -> fields)
    nextId,               \* generate_id("page"): next fresh id
    mid,                  \* mid_term_memory: set of page objects held by sessions
    cursor,               \* self.last_evicted_page_for_continuity (object or None)
    pc,                   \* position inside process_short_term_to_mid_term
    evicted_qas,          \* local evicted_qas
    popped,               \* every qa returned by pop_oldest in the running call
    current_batch_pages,  \* local current_batch_pages (objects)
    temp_last,            \* local temp_last_page_in_batch (object or None)
    themesLeft,           \* summaries of multi_summary_result still to be inserted
    log,                  \* collaborator and store calls issued by the running/last call
    outcome,              \* how the last call ended
    cursorAtStart,        \* cursor when the running/last call started
    lastBuilt             \* page most recently appended to a batch (line 153)

pvars == <<stm, nextTurn, pages, nextId, mid, cursor, pc, evicted_qas, popped,
           current_batch_pages, temp_last, themesLeft, log, outcome,
           cursorAtStart, lastBuilt>>

VARIABLES
    page_data,            \* the page dict handed to _process_page_embedding_and_keywords
    page_before,          \* page_data as it was when the running/last call started
    epc,                  \* position inside _process_page_embedding_and_keywords
    tasks,                \* local tasks (names, in the order of lines 52-56)
    fut,                  \* the two futures of the executor
    completed,            \* futures in completion order, not yet yielded by as_completed
    results,              \* local results
    ncalls,               \* calls of _process_page_embedding_and_keywords so far
    prev_results          \* results of the previous call

evars == <<page_data, page_before, epc, tasks, fut, completed, results, ncalls,
           prev_results>>

VARIABLES
    analysis,             \* profile_analysis_result handed to update_long_term_from_analysis
    lt_profile,           \* long_term_memory: the stored user profile
    user_knowledge,       \* long_term_memory: user knowledge items, in insertion order
    assistant_knowledge,  \* long_term_memory: assistant knowledge items, in insertion order
    lt_calls,             \* long_term_memory calls issued by the last update
    lt_before,            \* the long-term store when the call started
    lpc                   \* position of update_long_term_from_analysis

lvars == <<analysis, lt_profile, user_knowledge, assistant_knowledge, lt_calls,
           lt_before, lpc>>

VARIABLES
    gpages,               \* pages of an arbitrary mid-term page graph (object -> fields)
    gstore,               \* the objects the mid-term store holds
    gstart,               \* argument start_page_id
    gmeta,                \* argument new_meta_info
    gq,                   \* local q
    ghead,                \* local head
    gvisited,             \* local visited
    gpc,                  \* position inside _update_linked_pages_meta_info
    gorig,                \* gpages before the first run
    gafter,               \* gpages after the first run
    gruns,                \* completed runs with these arguments
    gsaves                \* mid_term_memory.save() calls of the running/last run

gvars == <<gpages, gstore, gstart, gmeta, gq, ghead, gvisited, gpc, gorig,
           gafter, gruns, gsaves>>

vars == <<pvars, evars, lvars, gvars>>

----------------------------------------------------------------------------
(* Bounds of the model *)

MaxTurns == 3       \* QA pairs ever added to short-term memory
Extra == 2          \* entries short-term memory may hold beyond its capacity
NMeta == 2          \* distinct texts generate_page_meta_info may return
MaxThemes == 2      \* summaries gpt_generate_multi_summary may return

(* max_capacity of the short-term store *)
Capacity == 1

None == 0
Metas == 1..NMeta

Range(s) == {s[i] : i \in 1..Len(s)}

(* list(s) of a set s: its elements once each, in some order *)
ListsOf(S) == {l \in [1..Cardinality(S) -> S] : Range(l) = S}

----------------------------------------------------------------------------
(* Short-term store (collaborator): is_full / pop_oldest / add *)

is_full(m) == Len(m) >= Capacity

pop_oldest(m) == [qa |-> Head(m), rest |-> Tail(m)]

(* mutant: the agent_response test of line 111 is missing *)
IsValidQA_user_input_only(qa) == qa.user_input # ""

(* line 111: qa and qa.get("user_input") and qa.get("agent_response") *)
IsValidQA(qa) == qa.user_input # "" /\ qa.agent_response # ""

----------------------------------------------------------------------------
(* Mid-term store (collaborator) *)

(* get_page_by_id: the stored page carrying this id, or None *)
get_page_by_id(pgs, store, id) ==
    IF id # None /\ \E o \in store : pgs[o].page_id = id
    THEN CHOOSE o \in store : pgs[o].page_id = id /\
                              \A o2 \in store : pgs[o2].page_id = id => o <= o2
    ELSE None

(* insert_pages_into_session: the store now holds (by reference) the pages *)
insert_pages_into_session(store, batch) == store \cup Range(batch)

(* update_page_connections(prev_id, next_id): registers the edge on the     *)
(* endpoints the store holds                                                *)
update_page_connections(pgs, store, prev_id, next_id) ==
    LET p == get_page_by_id(pgs, store, prev_id)
        pgs1 == IF p # None THEN [pgs EXCEPT ![p].next_page = next_id] ELSE pgs
        n == get_page_by_id(pgs1, store, next_id)
    IN  IF n # None THEN [pgs1 EXCEPT ![n].pre_page = prev_id] ELSE pgs1

----------------------------------------------------------------------------
(* Call log *)

Call(op, arg) == [op |-> op, arg |-> arg]

(* an insert_pages_into_session call: pages_to_insert, summary_for_new_pages *)
(* and keywords_for_new_pages                                               *)
InsertCall(op, batch, summary, keywords) ==
    [op |-> op, arg |-> batch, summary |-> summary, keywords |-> keywords]

(* an extract_keywords_from_multi_summary call and what it returned *)
ExtractCall(text, result) ==
    [op |-> "extract_keywords_from_multi_summary", arg |-> text, result |-> result]

StoreOps == {"write_meta", "save_propagation", "insert_theme",
             "insert_fallback", "update_page_connections", "save_final"}

----------------------------------------------------------------------------
(* _update_linked_pages_meta_info, lines 80-105 *)

RECURSIVE Walk(_, _, _, _, _, _, _)
Walk(pgs, store, q, head, visited, new_meta, written) ==
    IF head > Len(q)
    THEN [pages |-> pgs, q |-> q, written |-> written]
    ELSE LET current_page_id == q[head]
             page == get_page_by_id(pgs, store, current_page_id)
         IN  IF page = None
             THEN Walk(pgs, store, q, head + 1, visited, new_meta, written)
             ELSE LET pgs1 == [pgs EXCEPT ![page].meta_info = new_meta]
                      prev_id == pgs1[page].pre_page
                      addP == prev_id # None /\ prev_id \notin visited
                      q1 == IF addP THEN Append(q, prev_id) ELSE q
                      v1 == IF addP THEN visited \cup {prev_id} ELSE visited
                      next_id == pgs1[page].next_page
                      addN == next_id # None /\ next_id \notin v1
                      q2 == IF addN THEN Append(q1, next_id) ELSE q1
                      v2 == IF addN THEN v1 \cup {next_id} ELSE v1
                  IN  Walk(pgs1, store, q2, head + 1, v2, new_meta,
                           Append(written, Call("write_meta", <<page>>)))

(* mutant: the walk runs and saves, but line 93 is missing *)
update_linked_pages_meta_info_no_write(pgs, store, start_page_id, new_meta_info) ==
    [pages |-> pgs, calls |-> <<Call("save_propagation", <<>>)>>]

update_linked_pages_meta_info(pgs, store, start_page_id, new_meta_info) ==
    LET r == Walk(pgs, store, <<start_page_id>>, 1, {start_page_id},
                  new_meta_info, <<>>)
    IN  [pages |-> r.pages,
         calls |-> IF Len(r.q) > 0
                   THEN Append(r.written, Call("save_propagation", <<>>))
                   ELSE r.written]

----------------------------------------------------------------------------
(* process_short_term_to_mid_term, lines 107-204 *)

NoFuture == [state |-> "none", val |-> <<>>]
NoFutures == [embedding |-> NoFuture, keywords |-> [state |-> "none", val |-> {}]]
NoResult == [state |-> "absent", val |-> <<>>]
NoResults == [embedding |-> NoResult, keywords |-> [state |-> "absent", val |-> {}]]
EmptyPageData == [has_embedding |-> FALSE, page_embedding |-> <<>>,
                  has_keywords |-> FALSE, page_keywords |-> <<>>]

EnrichOff ==
    /\ page_data = EmptyPageData
    /\ page_before = EmptyPageData
    /\ epc = "off"
    /\ tasks = <<>>
    /\ fut = NoFutures
    /\ completed = <<>>
    /\ results = NoResults
    /\ ncalls = 0
    /\ prev_results = NoResults

LongTermOff ==
    /\ analysis = [present |-> FALSE]
    /\ lt_profile = <<>>
    /\ user_knowledge = <<>>
    /\ assistant_knowledge = <<>>
    /\ lt_calls = <<>>
    /\ lt_before = <<>>
    /\ lpc = "off"

GraphOff ==
    /\ gpages = <<>>
    /\ gstore = {}
    /\ gstart = None
    /\ gmeta = None
    /\ gq = <<>>
    /\ ghead = 0
    /\ gvisited = {}
    /\ gpc = "off"
    /\ gorig = <<>>
    /\ gafter = <<>>
    /\ gruns = 0
    /\ gsaves = 0

PromoteInit ==
    /\ stm = <<>>
    /\ nextTurn = 1
    /\ pages = <<>>
    /\ nextId = 1
    /\ mid = {}
    /\ cursor = None
    /\ pc = "idle"
    /\ evicted_qas = <<>>
    /\ popped = <<>>
    /\ current_batch_pages = <<>>
    /\ temp_last = None
    /\ themesLeft = 0
    /\ log = <<>>
    /\ outcome = "none"
    /\ cursorAtStart = None
    /\ lastBuilt = None

Init == PromoteInit /\ EnrichOff /\ LongTermOff /\ GraphOff

(* A QA pair is added to short-term memory between two promote calls *)
AddQA ==
    /\ pc = "idle"
    /\ nextTurn <= MaxTurns
    /\ Len(stm) < Capacity + Extra
    /\ \E u \in {"", "u"}, a \in {"", "a"} :
          stm' = Append(stm, [tid |-> nextTurn, user_input |-> u,
                              agent_response |-> a])
    /\ nextTurn' = nextTurn + 1
    /\ UNCHANGED <<pages, nextId, mid, cursor, pc, evicted_qas, popped,
                   current_batch_pages, temp_last, themesLeft, log, outcome,
                   cursorAtStart, lastBuilt, evars, lvars, gvars>>

(* line 108: the call starts *)
StartPromote ==
    /\ pc = "idle"
    /\ pc' = "evict"
    /\ evicted_qas' = <<>>
    /\ popped' = <<>>
    /\ current_batch_pages' = <<>>
    /\ temp_last' = None
    /\ themesLeft' = 0
    /\ log' = <<>>
    /\ outcome' = "running"
    /\ cursorAtStart' = cursor
    /\ UNCHANGED <<stm, nextTurn, pages, nextId, mid, cursor, lastBuilt, evars, lvars, gvars>>

(* lines 109-112: one iteration of the eviction loop *)
PopOldest ==
    /\ pc = "evict"
    /\ is_full(stm)
    /\ LET r == pop_oldest(stm)
       IN  /\ stm' = r.rest
           /\ popped' = Append(popped, r.qa)
           /\ evicted_qas' = IF IsValidQA(r.qa) THEN Append(evicted_qas, r.qa)
                             ELSE evicted_qas
    /\ UNCHANGED <<nextTurn, pages, nextId, mid, cursor, pc,
                   current_batch_pages, temp_last, themesLeft, log, outcome,
                   cursorAtStart, lastBuilt, evars, lvars, gvars>>

(* mutant: the early return of lines 114-116 is missing *)
EvictDone_no_early_return ==
    /\ pc = "evict"
    /\ ~is_full(stm)
    /\ pc' = "build"
    /\ temp_last' = cursor
    /\ UNCHANGED <<stm, nextTurn, pages, nextId, mid, cursor, evicted_qas,
                   popped, current_batch_pages, themesLeft, log, outcome,
                   cursorAtStart, lastBuilt, evars, lvars, gvars>>

(* lines 109, 114-122: the loop ends; empty batch returns *)
EvictDone ==
    /\ pc = "evict"
    /\ ~is_full(stm)
    /\ IF evicted_qas = <<>>
       THEN /\ pc' = "idle"
            /\ outcome' = "noop"
            /\ UNCHANGED temp_last
       ELSE /\ pc' = "build"
            /\ temp_last' = cursor
            /\ UNCHANGED outcome
    /\ UNCHANGED <<stm, nextTurn, pages, nextId, mid, cursor, evicted_qas,
                   popped, current_batch_pages, themesLeft, log,
                   cursorAtStart, lastBuilt, evars, lvars, gvars>>

(* mutant: generate_id is not called for every page *)
NewPage_fixed_id(qa_pair) ==
    [page_id |-> 1, qa |-> qa_pair.tid, pre_page |-> None,
     next_page |-> None, meta_info |-> None]

(* lines 125-135: the page dict of the next qa_pair *)
NewPage(qa_pair) ==
    [page_id |-> nextId, qa |-> qa_pair.tid, pre_page |-> None,
     next_page |-> None, meta_info |-> None]

NextQA == evicted_qas[Len(current_batch_pages) + 1]

Alloc(pgs, page) == [o \in 1..(Len(pgs) + 1) |->
                        IF o = Len(pgs) + 1 THEN page ELSE pgs[o]]

Raise(why) ==
    /\ pc' = "idle"
    /\ outcome' = why

(* mutant: line 140 links to the carried-over cursor instead of the preceding page *)
BuildStep_links_to_cursor(pgs, store, last, is_continuous, new_meta) ==
    LET obj == Len(pgs) + 1
        pgs0 == Alloc(pgs, NewPage(NextQA))
        judged == Call("check_conversation_continuity",
                       <<last, obj, IF is_continuous THEN 1 ELSE 0>>)
    IN  IF is_continuous /\ last # None
        THEN LET pgs1 == [pgs0 EXCEPT ![obj].pre_page = IF cursor # None
                                                      THEN pgs0[cursor].page_id
                                                      ELSE pgs0[last].page_id,
                                      ![obj].meta_info = new_meta]
                 gen == Call("generate_page_meta_info",
                             <<pgs0[last].meta_info, obj, new_meta>>)
                 stored == get_page_by_id(pgs1, store, pgs1[last].page_id) # None
                 prop == update_linked_pages_meta_info(pgs1, store,
                                                       pgs1[last].page_id, new_meta)
             IN  [pages |-> IF stored THEN prop.pages ELSE pgs1,
                  calls |-> <<judged, gen>> \o
                            (IF stored THEN prop.calls ELSE <<>>)]
        ELSE [pages |-> [pgs0 EXCEPT ![obj].meta_info = new_meta],
              calls |-> <<judged, Call("generate_page_meta_info",
                                       <<None, obj, new_meta>>)>>]

(* mutant: the test of line 147 is missing, propagation is always invoked *)
BuildStep_always_propagates(pgs, store, last, is_continuous, new_meta) ==
    LET obj == Len(pgs) + 1
        pgs0 == Alloc(pgs, NewPage(NextQA))
        judged == Call("check_conversation_continuity",
                       <<last, obj, IF is_continuous THEN 1 ELSE 0>>)
    IN  IF is_continuous /\ last # None
        THEN LET pgs1 == [pgs0 EXCEPT ![obj].pre_page = pgs0[last].page_id,
                                      ![obj].meta_info = new_meta]
                 gen == Call("generate_page_meta_info",
                             <<pgs0[last].meta_info, obj, new_meta>>)
                 stored == TRUE
                 prop == update_linked_pages_meta_info(pgs1, store,
                                                       pgs1[last].page_id, new_meta)
             IN  [pages |-> IF stored THEN prop.pages ELSE pgs1,
                  calls |-> <<judged, gen>> \o
                            (IF stored THEN prop.calls ELSE <<>>)]
        ELSE [pages |-> [pgs0 EXCEPT ![obj].meta_info = new_meta],
              calls |-> <<judged, Call("generate_page_meta_info",
                                       <<None, obj, new_meta>>)>>]

(* lines 139-153 for one qa_pair, given the two collaborator answers *)
BuildStep(pgs, store, last, is_continuous, new_meta) ==
    LET obj == Len(pgs) + 1
        pgs0 == Alloc(pgs, NewPage(NextQA))
        judged == Call("check_conversation_continuity",
                       <<last, obj, IF is_continuous THEN 1 ELSE 0>>)
    IN  IF is_continuous /\ last # None
        THEN LET pgs1 == [pgs0 EXCEPT ![obj].pre_page = pgs0[last].page_id,
                                      ![obj].meta_info = new_meta]
                 gen == Call("generate_page_meta_info",
                             <<pgs0[last].meta_info, obj, new_meta>>)
                 stored == get_page_by_id(pgs1, store, pgs1[last].page_id) # None
                 prop == update_linked_pages_meta_info(pgs1, store,
                                                       pgs1[last].page_id, new_meta)
             IN  [pages |-> IF stored THEN prop.pages ELSE pgs1,
                  calls |-> <<judged, gen>> \o
                            (IF stored THEN prop.calls ELSE <<>>)]
        ELSE [pages |-> [pgs0 EXCEPT ![obj].meta_info = new_meta],
              calls |-> <<judged, Call("generate_page_meta_info",
                                       <<None, obj, new_meta>>)>>]

(* lines 124-154: one iteration of the page-building loop *)
BuildPage ==
    /\ pc = "build"
    /\ Len(current_batch_pages) < Len(evicted_qas)
    /\ \E is_continuous \in BOOLEAN, new_meta \in Metas :
          LET r == BuildStep(pages, mid, temp_last, is_continuous, new_meta)
          IN  /\ pages' = r.pages
              /\ log' = log \o r.calls
    /\ nextId' = nextId + 1
    /\ current_batch_pages' = Append(current_batch_pages, Len(pages) + 1)
    /\ temp_last' = Len(pages) + 1
    /\ lastBuilt' = Len(pages) + 1
    /\ UNCHANGED <<stm, nextTurn, mid, cursor, pc, evicted_qas, popped,
                   themesLeft, outcome, cursorAtStart, evars, lvars, gvars>>

(* line 137 raises *)
ContinuityRaises ==
    /\ pc = "build"
    /\ Len(current_batch_pages) < Len(evicted_qas)
    /\ pages' = Alloc(pages, NewPage(NextQA))
    /\ nextId' = nextId + 1
    /\ log' = Append(log, Call("check_conversation_continuity",
                               <<temp_last, Len(pages) + 1, 2>>))
    /\ Raise("raised_continuity")
    /\ UNCHANGED <<stm, nextTurn, mid, cursor, evicted_qas, popped,
                   current_batch_pages, temp_last, themesLeft,
                   cursorAtStart, lastBuilt, evars, lvars, gvars>>

(* line 144 or line 151 raises; line 140 has run when the page continues *)
MetaInfoRaises ==
    /\ pc = "build"
    /\ Len(current_batch_pages) < Len(evicted_qas)
    /\ \E is_continuous \in BOOLEAN :
          LET obj == Len(pages) + 1
              pgs0 == Alloc(pages, NewPage(NextQA))
              linked == is_continuous /\ temp_last # None
          IN  /\ pages' = IF linked
                          THEN [pgs0 EXCEPT ![obj].pre_page = pgs0[temp_last].page_id]
                          ELSE pgs0
              /\ log' = log \o
                    <<Call("check_conversation_continuity",
                           <<temp_last, obj, IF is_continuous THEN 1 ELSE 0>>),
                      Call("generate_page_meta_info",
                           <<IF linked THEN pgs0[temp_last].meta_info ELSE None,
                             obj, 0>>)>>
    /\ nextId' = nextId + 1
    /\ Raise("raised_meta")
    /\ UNCHANGED <<stm, nextTurn, mid, cursor, evicted_qas, popped,
                   current_batch_pages, temp_last, themesLeft,
                   cursorAtStart, lastBuilt, evars, lvars, gvars>>

(* lines 157-158: the cursor moves to the last page of the batch *)
NewCursor(batch, old) == IF Len(batch) > 0 THEN batch[Len(batch)] ELSE old

BuildDone ==
    /\ pc = "build"
    /\ Len(current_batch_pages) = Len(evicted_qas)
    /\ cursor' = NewCursor(current_batch_pages, cursor)
    /\ pc' = "summary"
    /\ UNCHANGED <<stm, nextTurn, pages, nextId, mid, evicted_qas, popped,
                   current_batch_pages, temp_last, themesLeft, log, outcome,
                   cursorAtStart, lastBuilt, evars, lvars, gvars>>

(* what gpt_generate_multi_summary may return: no result (-1) or a result    *)
(* with k summaries                                                         *)
SummaryResults == {-1} \cup (0..MaxThemes)

(* line 170 returns k summaries; line 173 picks the branch *)
Summarize ==
    /\ pc = "summary"
    /\ \E k \in SummaryResults :
          /\ log' = Append(log, Call("gpt_generate_multi_summary", <<k>>))
          /\ themesLeft' = IF k > 0 THEN k ELSE 0
          /\ pc' = IF k > 0 THEN "insert" ELSE "fallback"
    /\ UNCHANGED <<stm, nextTurn, pages, nextId, mid, cursor, evicted_qas,
                   popped, current_batch_pages, temp_last, outcome,
                   cursorAtStart, lastBuilt, evars, lvars, gvars>>

(* mutant: the failure is swallowed and the batch is inserted anyway *)
SummaryRaises_inserts_anyway ==
    /\ pc = "summary"
    /\ log' = log \o <<Call("gpt_generate_multi_summary", <<MaxThemes + 1>>),
                       InsertCall("insert_fallback", current_batch_pages,
                                  "General conversation segment from short-term memory.",
                                  <<>>)>>
    /\ mid' = insert_pages_into_session(mid, current_batch_pages)
    /\ Raise("raised_summary")
    /\ UNCHANGED <<stm, nextTurn, pages, nextId, cursor, evicted_qas,
                   popped, current_batch_pages, temp_last, themesLeft,
                   cursorAtStart, lastBuilt, evars, lvars, gvars>>

(* line 170 raises *)
SummaryRaises ==
    /\ pc = "summary"
    /\ log' = Append(log, Call("gpt_generate_multi_summary", <<MaxThemes + 1>>))
    /\ Raise("raised_summary")
    /\ UNCHANGED <<stm, nextTurn, pages, nextId, mid, cursor, evicted_qas,
                   popped, current_batch_pages, temp_last, themesLeft,
                   cursorAtStart, lastBuilt, evars, lvars, gvars>>

(* the summaries already inserted by the running call *)
ThemesDone == Cardinality({i \in 1..Len(log) : log[i].op = "insert_theme"})

(* content and keywords of the j-th summary item *)
ThemeContent(j) == <<"content", j>>
ThemeKeywords(j) == <<"keywords", j>>

(* mutant: the theme loop stops after its first iteration *)
InsertTheme_stops_after_first ==
    /\ pc = "insert"
    /\ themesLeft > 0
    /\ mid' = insert_pages_into_session(mid, current_batch_pages)
    /\ log' = Append(log, InsertCall("insert_theme", current_batch_pages,
                                     ThemeContent(ThemesDone + 1),
                                     ThemeKeywords(ThemesDone + 1)))
    /\ themesLeft' = 0
    /\ pc' = "finalize"
    /\ UNCHANGED <<stm, nextTurn, pages, nextId, cursor, evicted_qas, popped,
                   current_batch_pages, temp_last, outcome, cursorAtStart,
                   lastBuilt, evars, lvars, gvars>>

(* lines 174-184: one iteration of the theme loop *)
InsertTheme ==
    /\ pc = "insert"
    /\ themesLeft > 0
    /\ mid' = insert_pages_into_session(mid, current_batch_pages)
    /\ log' = Append(log, InsertCall("insert_theme", current_batch_pages,
                                     ThemeContent(ThemesDone + 1),
                                     ThemeKeywords(ThemesDone + 1)))
    /\ themesLeft' = themesLeft - 1
    /\ pc' = IF themesLeft = 1 THEN "finalize" ELSE "insert"
    /\ UNCHANGED <<stm, nextTurn, pages, nextId, cursor, evicted_qas, popped,
                   current_batch_pages, temp_last, outcome, cursorAtStart,
                   lastBuilt, evars, lvars, gvars>>

(* line 179 raises (the store refuses the insertion) *)
InsertRaises ==
    /\ pc = "insert"
    /\ themesLeft > 0
    /\ Raise("raised_insert")
    /\ UNCHANGED <<stm, nextTurn, pages, nextId, mid, cursor, evicted_qas,
                   popped, current_batch_pages, temp_last, themesLeft, log,
                   cursorAtStart, lastBuilt, evars, lvars, gvars>>

(* lines 164-167: the text of the batch, page after page *)
input_text_for_summary(pgs, batch) == [i \in 1..Len(batch) |-> pgs[batch[i]].qa]

(* line 188 *)
fallback_summary == "General conversation segment from short-term memory."

(* keyword sets extract_keywords_from_multi_summary may return at line 189 *)
FallbackKeywords == {{1}, {1, 2}}

(* mutant: the extracted keywords are not handed to the insertion *)
InsertFallback_drops_keywords ==
    /\ pc = "fallback"
    /\ mid' = insert_pages_into_session(mid, current_batch_pages)
    /\ \E kw \in FallbackKeywords :
          log' = log \o
             <<ExtractCall(input_text_for_summary(pages, current_batch_pages), kw),
               InsertCall("insert_fallback", current_batch_pages,
                          fallback_summary, <<>>)>>
    /\ pc' = "finalize"
    /\ UNCHANGED <<stm, nextTurn, pages, nextId, cursor, evicted_qas, popped,
                   current_batch_pages, temp_last, themesLeft, outcome,
                   cursorAtStart, lastBuilt, evars, lvars, gvars>>

(* lines 186-195: the fallback insertion *)
InsertFallback ==
    /\ pc = "fallback"
    /\ mid' = insert_pages_into_session(mid, current_batch_pages)
    /\ LET text == input_text_for_summary(pages, current_batch_pages)
       IN  IF text # <<>>
           THEN \E kw \in FallbackKeywords : \E l \in ListsOf(kw) :
                   log' = log \o
                      <<ExtractCall(text, kw),
                        InsertCall("insert_fallback", current_batch_pages,
                                   fallback_summary, l)>>
           ELSE log' = Append(log, InsertCall("insert_fallback", current_batch_pages,
                                              fallback_summary, <<>>))
    /\ pc' = "finalize"
    /\ UNCHANGED <<stm, nextTurn, pages, nextId, cursor, evicted_qas, popped,
                   current_batch_pages, temp_last, themesLeft, outcome,
                   cursorAtStart, lastBuilt, evars, lvars, gvars>>

(* line 189 raises *)
FallbackKeywordsRaise ==
    /\ pc = "fallback"
    /\ log' = Append(log, Call("extract_keywords_from_multi_summary",
                               input_text_for_summary(pages, current_batch_pages)))
    /\ Raise("raised_keywords")
    /\ UNCHANGED <<stm, nextTurn, pages, nextId, mid, cursor, evicted_qas,
                   popped, current_batch_pages, temp_last, themesLeft,
                   cursorAtStart, lastBuilt, evars, lvars, gvars>>

(* line 190 raises (the store refuses the insertion), after line 189 has    *)
(* returned the keywords                                                    *)
FallbackInsertRaises ==
    /\ pc = "fallback"
    /\ LET text == input_text_for_summary(pages, current_batch_pages)
       IN  IF text # <<>>
           THEN \E kw \in FallbackKeywords : log' = Append(log, ExtractCall(text, kw))
           ELSE log' = log
    /\ Raise("raised_insert")
    /\ UNCHANGED <<stm, nextTurn, pages, nextId, mid, cursor, evicted_qas,
                   popped, current_batch_pages, temp_last, themesLeft,
                   cursorAtStart, lastBuilt, evars, lvars, gvars>>

(* lines 198-202: the connection loop, from page i of the batch on *)
RECURSIVE ConnectFrom(_, _, _, _, _)
ConnectFrom(pgs, store, batch, i, calls) ==
    IF i > Len(batch)
    THEN [pages |-> pgs, calls |-> calls]
    ELSE LET page == batch[i]
             hasPre == pgs[page].pre_page # None
             pgs1 == IF hasPre
                     THEN update_page_connections(pgs, store, pgs[page].pre_page,
                                                  pgs[page].page_id)
                     ELSE pgs
             c1 == IF hasPre
                   THEN Append(calls, Call("update_page_connections",
                                           <<pgs[page].pre_page, pgs[page].page_id>>))
                   ELSE calls
             hasNext == pgs1[page].next_page # None
             pgs2 == IF hasNext
                     THEN update_page_connections(pgs1, store, pgs1[page].page_id,
                                                  pgs1[page].next_page)
                     ELSE pgs1
             c2 == IF hasNext
                   THEN Append(c1, Call("update_page_connections",
                                        <<pgs1[page].page_id, pgs1[page].next_page>>))
                   ELSE c1
         IN  ConnectFrom(pgs2, store, batch, i + 1, c2)

(* mutant: the save is issued before the connections are registered *)
FinalizeBatch_saves_first(pgs, store, batch) ==
    LET r == ConnectFrom(pgs, store, batch, 1, <<>>)
    IN  [pages |-> r.pages,
         calls |-> IF Len(batch) > 0
                   THEN <<Call("save_final", <<>>)>> \o r.calls
                   ELSE r.calls]

(* lines 197-204 *)
FinalizeBatch(pgs, store, batch) ==
    LET r == ConnectFrom(pgs, store, batch, 1, <<>>)
    IN  [pages |-> r.pages,
         calls |-> IF Len(batch) > 0
                   THEN Append(r.calls, Call("save_final", <<>>))
                   ELSE r.calls]

Finalize ==
    /\ pc = "finalize"
    /\ LET r == FinalizeBatch(pages, mid, current_batch_pages)
       IN  /\ pages' = r.pages
           /\ log' = log \o r.calls
    /\ pc' = "idle"
    /\ outcome' = "ok"
    /\ UNCHANGED <<stm, nextTurn, nextId, mid, cursor, evicted_qas, popped,
                   current_batch_pages, temp_last, themesLeft, cursorAtStart,
                   lastBuilt, evars, lvars, gvars>>

Next ==
    \/ AddQA
    \/ StartPromote
    \/ PopOldest
    \/ EvictDone
    \/ BuildPage
    \/ ContinuityRaises
    \/ MetaInfoRaises
    \/ BuildDone
    \/ Summarize
    \/ SummaryRaises
    \/ InsertTheme
    \/ InsertRaises
    \/ InsertFallback
    \/ FallbackKeywordsRaise
    \/ FallbackInsertRaises
    \/ Finalize

Spec == Init /\ [][Next]_vars

----------------------------------------------------------------------------
(* _process_page_embedding_and_keywords, lines 38-78 *)

MaxCalls == 2       \* successive calls on the same page dict
EmbMax == 2         \* get_embedding returns a one-dimensional vector <<x>>, |x| <= EmbMax
NKw == 2            \* keywords the extractor may return

Abs(x) == IF x < 0 THEN -x ELSE x

(* normalize_vector: v / ||v||, the zero vector is returned as it is *)
normalize_vector(v) ==
    IF Abs(v[1]) = 0 THEN v ELSE <<v[1] \div Abs(v[1])>>

RawEmbeddings == {<<x>> : x \in (-EmbMax)..EmbMax}
RawKeywords == SUBSET (1..NKw)

(* lines 43, 52: "page_embedding" in page_data and page_data["page_embedding"] *)
EmbeddingSet(pd) == pd.has_embedding /\ pd.page_embedding # <<>>

(* lines 44, 55: "page_keywords" in page_data and page_data["page_keywords"] *)
KeywordsSet(pd) == pd.has_keywords /\ pd.page_keywords # <<>>

(* lines 43-46: early return *)
SkipComputation(pd) == EmbeddingSet(pd) /\ KeywordsSet(pd)

(* mutant: both tasks are always scheduled *)
TasksFor_always_both(pd) == <<"embedding", "keywords">>

(* lines 51-56 *)
TasksFor(pd) ==
    (IF ~EmbeddingSet(pd) THEN <<"embedding">> ELSE <<>>) \o
    (IF ~KeywordsSet(pd) THEN <<"keywords">> ELSE <<>>)

InputPages ==
    {[has_embedding |-> he, page_embedding |-> e,
      has_keywords |-> hk, page_keywords |-> k] :
        he \in BOOLEAN, e \in {<<>>, <<1>>},
        hk \in BOOLEAN, k \in {<<>>, <<1>>, <<2, 1>>}}
    \ {pd \in [has_embedding : BOOLEAN, page_embedding : {<<>>, <<1>>},
               has_keywords : BOOLEAN, page_keywords : {<<>>, <<1>>, <<2, 1>>}] :
          \/ (~pd.has_embedding /\ pd.page_embedding # <<>>)
          \/ (~pd.has_keywords /\ pd.page_keywords # <<>>)}

EnrichInit ==
    /\ PromoteInit
    /\ LongTermOff
    /\ GraphOff
    /\ page_data \in InputPages
    /\ page_before = page_data
    /\ epc = "ready"
    /\ tasks = <<>>
    /\ fut = NoFutures
    /\ completed = <<>>
    /\ results = NoResults
    /\ ncalls = 0
    /\ prev_results = NoResults

(* lines 38-60: the call, up to the submission of the tasks *)
EnrichCall ==
    /\ epc \in {"ready", "returned", "raised"}
    /\ ncalls < MaxCalls
    /\ ncalls' = ncalls + 1
    /\ page_before' = page_data
    /\ prev_results' = results
    /\ results' = NoResults
    /\ completed' = <<>>
    /\ IF SkipComputation(page_data)
       THEN /\ tasks' = <<>>
            /\ fut' = NoFutures
            /\ epc' = "returned"
       ELSE /\ tasks' = TasksFor(page_data)
            /\ fut' = [embedding |->
                          IF "embedding" \in Range(tasks')
                          THEN [state |-> "running", val |-> <<>>]
                          ELSE NoFutures.embedding,
                       keywords |->
                          IF "keywords" \in Range(tasks')
                          THEN [state |-> "running", val |-> {}]
                          ELSE NoFutures.keywords]
            /\ epc' = IF tasks' = <<>> THEN "returned" ELSE "wait"
    /\ UNCHANGED <<page_data, pvars, lvars, gvars>>

(* line 53 in a worker thread: get_embedding returns *)
EmbeddingReturns ==
    /\ epc \in {"wait", "unwind"}
    /\ fut.embedding.state = "running"
    /\ \E v \in RawEmbeddings :
          fut' = [fut EXCEPT !.embedding = [state |-> "ok", val |-> v]]
    /\ completed' = Append(completed, "embedding")
    /\ UNCHANGED <<page_data, page_before, epc, tasks, results, ncalls,
                   prev_results, pvars, lvars, gvars>>

(* line 53 in a worker thread: get_embedding raises an Exception ("failed") *)
(* or a BaseException that is not an Exception ("failed_base"); the worker  *)
(* stores either in the future                                              *)
EmbeddingRaises ==
    /\ epc \in {"wait", "unwind"}
    /\ fut.embedding.state = "running"
    /\ \E how \in {"failed", "failed_base"} :
          fut' = [fut EXCEPT !.embedding = [state |-> how, val |-> <<>>]]
    /\ completed' = Append(completed, "embedding")
    /\ UNCHANGED <<page_data, page_before, epc, tasks, results, ncalls,
                   prev_results, pvars, lvars, gvars>>

(* line 56 in a worker thread: the extractor returns *)
KeywordsReturn ==
    /\ epc \in {"wait", "unwind"}
    /\ fut.keywords.state = "running"
    /\ \E v \in RawKeywords :
          fut' = [fut EXCEPT !.keywords = [state |-> "ok", val |-> v]]
    /\ completed' = Append(completed, "keywords")
    /\ UNCHANGED <<page_data, page_before, epc, tasks, results, ncalls,
                   prev_results, pvars, lvars, gvars>>

(* line 56 in a worker thread: the extractor raises, as above *)
KeywordsRaises ==
    /\ epc \in {"wait", "unwind"}
    /\ fut.keywords.state = "running"
    /\ \E how \in {"failed", "failed_base"} :
          fut' = [fut EXCEPT !.keywords = [state |-> how, val |-> {}]]
    /\ completed' = Append(completed, "keywords")
    /\ UNCHANGED <<page_data, page_before, epc, tasks, results, ncalls,
                   prev_results, pvars, lvars, gvars>>

(* lines 65-69: future.result() inside try/except Exception: an Exception   *)
(* becomes None, any other BaseException is raised again and not caught     *)
FutureResult(f) ==
    IF f.state = "ok"
    THEN [raised |-> FALSE, state |-> "value", val |-> f.val]
    ELSE IF f.state = "failed"
    THEN [raised |-> FALSE, state |-> "none", val |-> f.val]
    ELSE [raised |-> TRUE, state |-> "absent", val |-> f.val]

(* lines 63-69: as_completed yields a completed future not yet yielded;    *)
(* those already finished are yielded in the iteration order of a set, so   *)
(* any of them may come first                                               *)
CollectResult ==
    /\ epc = "wait"
    /\ \E i \in 1..Len(completed) :
          LET task_type == completed[i]
              r == FutureResult(fut[task_type])
          IN  /\ IF r.raised
                 THEN /\ epc' = "unwind"
                      /\ UNCHANGED results
                 ELSE /\ results' = [results EXCEPT
                                       ![task_type] = [state |-> r.state, val |-> r.val]]
                      /\ UNCHANGED epc
              /\ completed' = SubSeq(completed, 1, i - 1) \o
                                 SubSeq(completed, i + 1, Len(completed))
    /\ UNCHANGED <<page_data, page_before, tasks, fut, ncalls, prev_results,
                   pvars, lvars, gvars>>

(* line 61: the exception leaves the with block, whose exit waits for the  *)
(* tasks still running (shutdown(wait=True)), and then the method          *)
ExecutorExitRaises ==
    /\ epc = "unwind"
    /\ \A t \in Range(tasks) : fut[t].state # "running"
    /\ epc' = "raised"
    /\ UNCHANGED <<page_data, page_before, tasks, fut, completed, results,
                   ncalls, prev_results, pvars, lvars, gvars>>

(* mutant: nothing is stored unless every collected result is a value *)
StoreResults_all_or_nothing(pd, res) ==
    IF res.embedding.state = "none" \/ res.keywords.state = "none"
    THEN {pd}
    ELSE LET pd1 == IF res.embedding.state = "value"
                    THEN [pd EXCEPT !.has_embedding = TRUE,
                                    !.page_embedding = normalize_vector(res.embedding.val)]
                    ELSE pd
         IN  IF res.keywords.state = "value"
             THEN {[pd1 EXCEPT !.has_keywords = TRUE, !.page_keywords = l] :
                      l \in ListsOf(res.keywords.val)}
             ELSE {pd1}

(* lines 72-76: the page dicts the update may produce *)
StoreResults(pd, res) ==
    LET pd1 == IF res.embedding.state = "value"
               THEN [pd EXCEPT !.has_embedding = TRUE,
                               !.page_embedding = normalize_vector(res.embedding.val)]
               ELSE pd
    IN  IF res.keywords.state = "value"
        THEN {[pd1 EXCEPT !.has_keywords = TRUE, !.page_keywords = l] :
                 l \in ListsOf(res.keywords.val)}
        ELSE {pd1}

(* lines 63, 70-78: every future has been yielded, the executor is left,   *)
(* the page is updated and returned                                         *)
UpdateAndReturn ==
    /\ epc = "wait"
    /\ \A t \in Range(tasks) : results[t].state # "absent"
    /\ page_data' \in StoreResults(page_data, results)
    /\ epc' = "returned"
    /\ UNCHANGED <<page_before, tasks, fut, completed, results, ncalls,
                   prev_results, pvars, lvars, gvars>>

EnrichNext ==
    \/ EnrichCall
    \/ EmbeddingReturns
    \/ EmbeddingRaises
    \/ KeywordsReturn
    \/ KeywordsRaises
    \/ CollectResult
    \/ ExecutorExitRaises
    \/ UpdateAndReturn

EnrichSpec == EnrichInit /\ [][EnrichNext]_vars

----------------------------------------------------------------------------
(* Properties *)

LogOps == {log[i].op : i \in 1..Len(log)}

JudgedContinuous(prev, curr) ==
    \E i \in 1..Len(log) :
        log[i] = Call("check_conversation_continuity", <<prev, curr, 1>>)

JudgedNotContinuous(prev, curr) ==
    \E i \in 1..Len(log) :
        log[i] = Call("check_conversation_continuity", <<prev, curr, 0>>)

(* the predecessor the k-th page of the batch was tested against *)
Predecessor(k) == IF k = 1 THEN cursorAtStart ELSE current_batch_pages[k - 1]

StoredWithId(id) == {o \in mid : pages[o].page_id = id}

(* the k-th page of the batch continues a predecessor the store holds *)
ContinuesStored(k) ==
    /\ Predecessor(k) # None
    /\ JudgedContinuous(Predecessor(k), current_batch_pages[k])
    /\ StoredWithId(pages[Predecessor(k)].page_id) # {}

(* C1: while the batch is being built (the store has not changed since the  *)
(* call began), every page of the batch judged continuous with a            *)
(* predecessor that the mid-term store holds has pre_page equal to the      *)
(* predecessor's page_id, and the stored predecessor carries the page's     *)
(* meta_info.                                                               *)
C1_ContinuousStoredPredecessor ==
    pc \in {"build", "summary"} =>
        \A k \in 1..Len(current_batch_pages) :
            ContinuesStored(k) =>
                /\ pages[current_batch_pages[k]].pre_page =
                       pages[Predecessor(k)].page_id
                /\ \A o \in StoredWithId(pages[Predecessor(k)].page_id) :
                       pages[o].meta_info =
                           pages[current_batch_pages[k]].meta_info

C1_Witness ==
    /\ pc = "build"
    /\ Len(current_batch_pages) >= 1
    /\ ContinuesStored(1)
    /\ \E i \in 1..Len(log) : log[i].op = "write_meta"

(* C2: after a promote call has finished, any two stored pages joined by a  *)
(* pre_page edge carry the same meta_info (hence every chain is uniform).   *)
C2_ChainSharesMetaInfo ==
    (pc = "idle" /\ outcome = "ok") =>
        \A a \in mid, b \in mid :
            pages[a].pre_page = pages[b].page_id =>
                pages[a].meta_info = pages[b].meta_info

(* C3: after a promote call has finished, two adjacent pages of the batch   *)
(* judged continuous are linked both ways and carry the same meta_info; a   *)
(* page judged not continuous has no pre_page and a meta_info generated     *)
(* from no prior meta.                                                      *)
C3_BatchScenario ==
    (pc = "idle" /\ outcome = "ok") =>
        \A k \in 2..Len(current_batch_pages) :
            LET P1 == current_batch_pages[k - 1]
                P2 == current_batch_pages[k]
            IN  /\ JudgedContinuous(P1, P2) =>
                      /\ pages[P1].next_page = pages[P2].page_id
                      /\ pages[P2].pre_page = pages[P1].page_id
                      /\ pages[P2].meta_info = pages[P1].meta_info
                /\ JudgedNotContinuous(P1, P2) =>
                      /\ pages[P2].pre_page = None
                      /\ \E i \in 1..Len(log) :
                            log[i] = Call("generate_page_meta_info",
                                          <<None, P2, pages[P2].meta_info>>)

(* C4: after a promote call that reached finalization, every pre_page and   *)
(* next_page pointer of a stored page points to a stored page that points   *)
(* back.                                                                    *)
C4_EdgesMutual ==
    (pc = "idle" /\ outcome = "ok") =>
        \A p \in mid :
            /\ pages[p].pre_page # None =>
                  \E q \in mid : /\ pages[q].page_id = pages[p].pre_page
                                 /\ pages[q].next_page = pages[p].page_id
            /\ pages[p].next_page # None =>
                  \E q \in mid : /\ pages[q].page_id = pages[p].next_page
                                 /\ pages[q].pre_page = pages[p].page_id

Raised == {"raised_continuity", "raised_meta", "raised_summary",
           "raised_insert", "raised_keywords"}

(* C5: between calls the cursor is the most recently built page when the    *)
(* last call succeeded, and a call that did not complete successfully has   *)
(* left the cursor as it found it.                                          *)
C5_CursorOncePerSuccessfulBatch ==
    pc = "idle" =>
        /\ outcome = "ok" =>
              /\ cursor = lastBuilt
              /\ cursor = current_batch_pages[Len(current_batch_pages)]
        /\ outcome \in Raised \cup {"noop"} => cursor = cursorAtStart

(* C6: page ids are pairwise distinct over all pages ever created; a        *)
(* successful promote has built one page per evicted valid turn, in         *)
(* eviction order, and every insertion of the call received exactly that    *)
(* batch.                                                                   *)
C6_OnePagePerTurnUniqueIds ==
    /\ \A o1 \in DOMAIN pages, o2 \in DOMAIN pages :
          o1 # o2 => pages[o1].page_id # pages[o2].page_id
    /\ (pc = "idle" /\ outcome = "ok") =>
          /\ Len(current_batch_pages) = Len(evicted_qas)
          /\ \A i \in 1..Len(evicted_qas) :
                pages[current_batch_pages[i]].qa = evicted_qas[i].tid
          /\ \A i \in 1..Len(current_batch_pages), j \in 1..Len(current_batch_pages) :
                i # j => current_batch_pages[i] # current_batch_pages[j]
          /\ \E i \in 1..Len(log) : log[i].op \in {"insert_theme", "insert_fallback"}
          /\ \A i \in 1..Len(log) :
                log[i].op \in {"insert_theme", "insert_fallback"} =>
                    log[i].arg = current_batch_pages

C6_Witness ==
    /\ pc = "idle"
    /\ outcome = "ok"
    /\ Len(current_batch_pages) >= 2
    /\ Len(pages) > Len(current_batch_pages)
    /\ Cardinality({i \in 1..Len(log) : log[i].op = "insert_theme"}) >= 2

(* the entries of s that have a non-empty user_input and agent_response *)
RECURSIVE WithBothFields(_)
WithBothFields(s) ==
    IF s = <<>> THEN <<>>
    ELSE IF Head(s).user_input # "" /\ Head(s).agent_response # ""
         THEN <<Head(s)>> \o WithBothFields(Tail(s))
         ELSE WithBothFields(Tail(s))

(* C7: when the eviction loop is left, short-term memory is not full, the   *)
(* batch is the popped entries that have both fields, in popping order      *)
(* (oldest first), and no popped entry is back in short-term memory.        *)
C7_EvictionLoop ==
    [][(pc = "evict" /\ pc' # "evict") =>
          /\ Len(stm') < Capacity
          /\ evicted_qas' = WithBothFields(popped')
          /\ \A i \in 1..Len(popped'), j \in 1..Len(popped') :
                i < j => popped'[i].tid < popped'[j].tid
          /\ \A i \in 1..Len(popped'), j \in 1..Len(stm') :
                popped'[i].tid < stm'[j].tid
       ]_vars

C7_Witness ==
    /\ pc = "build"
    /\ Len(popped) >= 3
    /\ Len(evicted_qas) = 2
    /\ popped[2].agent_response = ""

(* C8: a call ended by a failing continuity judgment, meta-info generation  *)
(* or summarizer has issued no insertion, no edge registration and no final *)
(* save, and the turns it popped are neither in short-term memory nor in    *)
(* the mid-term store.                                                      *)
C8_AbortSkipsAndLoses ==
    (pc = "idle" /\ outcome \in {"raised_continuity", "raised_meta",
                                 "raised_summary"}) =>
        /\ LogOps \cap {"insert_theme", "insert_fallback",
                        "update_page_connections", "save_final"} = {}
        /\ \A i \in 1..Len(popped) :
              /\ \A j \in 1..Len(stm) : stm[j].tid # popped[i].tid
              /\ \A o \in mid : pages[o].qa # popped[i].tid

C8_Witness ==
    /\ pc = "idle"
    /\ outcome = "raised_summary"
    /\ Len(evicted_qas) >= 2
    /\ "save_propagation" \in LogOps
    /\ mid # {}

(* what a returned call has done with the results of its tasks: every     *)
(* submitted task has completed, an attribute whose task succeeded holds    *)
(* that task's result (the embedding scaled to unit length, the keywords    *)
(* once each), an attribute whose task failed is as it was before the call  *)
ReturnedIsolated ==
    (epc = "returned" /\ ncalls >= 1) =>
          /\ \A t \in Range(tasks) : fut[t].state \in {"ok", "failed"}
          /\ fut.embedding.state = "ok" =>
                /\ page_data.has_embedding
                /\ Len(page_data.page_embedding) = 1
                /\ page_data.page_embedding[1] * Abs(fut.embedding.val[1]) =
                       fut.embedding.val[1]
                /\ Abs(page_data.page_embedding[1]) <= 1
          /\ fut.embedding.state = "failed" =>
                /\ page_data.has_embedding = page_before.has_embedding
                /\ page_data.page_embedding = page_before.page_embedding
          /\ fut.keywords.state = "ok" =>
                /\ page_data.has_keywords
                /\ Range(page_data.page_keywords) = fut.keywords.val
                /\ Len(page_data.page_keywords) = Cardinality(fut.keywords.val)
          /\ fut.keywords.state = "failed" =>
                /\ page_data.has_keywords = page_before.has_keywords
                /\ page_data.page_keywords = page_before.page_keywords

(* C9: whatever the two tasks do, the call never raises, and a              *)
(* returned call has stored the result of every task that succeeded and     *)
(* left the attribute of every task that failed as it was.                  *)
C9_AsStated ==
    /\ epc \notin {"unwind", "raised"}
    /\ ReturnedIsolated

(* The isolation the code does give: the call raises only when a task      *)
(* raised a BaseException that is not an Exception; a task that raised an   *)
(* Exception never makes the call raise, and a returned call has stored     *)
(* the result of every task that succeeded and left the attribute of every  *)
(* task that raised an Exception as it was; a call that raises leaves the   *)
(* page as it was and has joined both tasks.                                *)
C9_TasksIsolatedFromExceptions ==
    /\ epc \in {"unwind", "raised"} =>
          /\ \E t \in Range(tasks) : fut[t].state = "failed_base"
          /\ page_data = page_before
    /\ epc = "raised" => \A t \in Range(tasks) : fut[t].state # "running"
    /\ (epc = "wait" /\ \A t \in Range(tasks) : fut[t].state \in {"ok", "failed"}) =>
          ENABLED (CollectResult \/ UpdateAndReturn)
    /\ ReturnedIsolated

C9_Witness ==
    /\ epc = "returned"
    /\ fut.embedding.state = "failed"
    /\ fut.keywords.state = "ok"
    /\ fut.keywords.val = {1, 2}
    /\ page_before.has_keywords
    /\ page_before.page_keywords = <<>>

HadEmbedding == page_before.has_embedding /\ page_before.page_embedding # <<>>
HadKeywords == page_before.has_keywords /\ page_before.page_keywords # <<>>

(* no task is scheduled for an attribute that was set, and such an          *)
(* attribute is returned as it was                                          *)
NeverRecomputes ==
    (epc \in {"wait", "unwind", "raised", "returned"} /\ ncalls >= 1) =>
        /\ HadEmbedding =>
              /\ "embedding" \notin Range(tasks)
              /\ fut.embedding.state = "none"
              /\ page_data.has_embedding = page_before.has_embedding
              /\ page_data.page_embedding = page_before.page_embedding
        /\ HadKeywords =>
              /\ "keywords" \notin Range(tasks)
              /\ fut.keywords.state = "none"
              /\ page_data.has_keywords = page_before.has_keywords
              /\ page_data.page_keywords = page_before.page_keywords
        /\ ~HadEmbedding => "embedding" \in Range(tasks)
        /\ ~HadKeywords => "keywords" \in Range(tasks)
        /\ (HadEmbedding /\ HadKeywords) => (tasks = <<>> /\ page_data = page_before)

PreviousCallComputedBoth ==
    /\ ncalls >= 2
    /\ prev_results.embedding.state = "value"
    /\ prev_results.keywords.state = "value"

(* C10 as stated: nothing set is recomputed or overwritten, and a second    *)
(* call on a page on which both computations succeeded returns it as the    *)
(* first call left it.                                                      *)
C10_AsStated ==
    /\ NeverRecomputes
    /\ (epc = "returned" /\ PreviousCallComputedBoth) => page_data = page_before

(* C10 amended: the second call returns the page unchanged when both        *)
(* computations of the first call succeeded with non-empty results.         *)
C10_NeverRecomputesIdempotent ==
    /\ NeverRecomputes
    /\ (epc \in {"wait", "returned"} /\ PreviousCallComputedBoth
        /\ prev_results.embedding.val # <<>> /\ prev_results.keywords.val # {}) =>
          (epc = "returned" /\ tasks = <<>> /\ page_data = page_before)

C10_Witness ==
    /\ epc = "returned"
    /\ PreviousCallComputedBoth
    /\ prev_results.keywords.val = {1, 2}
    /\ page_data = page_before
    /\ tasks = <<>>

----------------------------------------------------------------------------
(* Properties of the thematic insertion, the finalization and the links *)

IndicesOf(ops) == {i \in 1..Len(log) : log[i].op \in ops}

(* the answer of gpt_generate_multi_summary in the running/last call *)
SummaryAnswers == {log[i].arg[1] : i \in IndicesOf({"gpt_generate_multi_summary"})}

(* the pages of the batch that carry a pre_page *)
LinkedInBatch ==
    {k \in 1..Len(current_batch_pages) :
        pages[current_batch_pages[k]].pre_page # None}

(* C13: a finished call whose summarizer returned k >= 1 themes has called  *)
(* insert_pages_into_session exactly k times, every time with the whole     *)
(* batch, all of them before the first edge registration and the final      *)
(* save, and has registered the edge (pre_page, page_id) of every linked    *)
(* page of the batch exactly once and nothing else.                         *)
C13_ThemesInsertWholeBatch ==
    (pc = "idle" /\ outcome = "ok") =>
        \A k \in SummaryAnswers : k >= 1 =>
            /\ Cardinality(IndicesOf({"insert_theme"})) = k
            /\ \A i \in IndicesOf({"insert_theme"}) :
                  log[i].arg = current_batch_pages
            /\ \A i \in IndicesOf({"insert_theme"}),
                  j \in IndicesOf({"update_page_connections", "save_final"}) : i < j
            /\ \A n \in LinkedInBatch :
                  Cardinality({i \in IndicesOf({"update_page_connections"}) :
                      log[i].arg = <<pages[current_batch_pages[n]].pre_page,
                                     pages[current_batch_pages[n]].page_id>>}) = 1
            /\ Cardinality(IndicesOf({"update_page_connections"})) =
                   Cardinality(LinkedInBatch)

C13_Witness ==
    /\ pc = "idle"
    /\ outcome = "ok"
    /\ 2 \in SummaryAnswers
    /\ Len(current_batch_pages) = 2
    /\ pages[current_batch_pages[2]].pre_page = pages[current_batch_pages[1]].page_id
    /\ Cardinality(IndicesOf({"insert_theme"})) = 2

(* C15: as long as the running/last call has no valid evicted turn it is in *)
(* the eviction loop or has returned, it has issued no collaborator and no  *)
(* store call, and the cursor is the one the call started with.             *)
C15_EmptyBatchNoOp ==
    evicted_qas = <<>> =>
        /\ pc \in {"idle", "evict"}
        /\ log = <<>>
        /\ cursor = cursorAtStart

C15_Witness ==
    /\ pc = "idle"
    /\ outcome = "noop"
    /\ Len(popped) >= 2
    /\ cursor # None
    /\ mid # {}

Phase(op) ==
    CASE op \in {"write_meta", "save_propagation"} -> 1
      [] op \in {"insert_theme", "insert_fallback"} -> 2
      [] op = "update_page_connections" -> 3
      [] op = "save_final" -> 4

(* C17: in a finished call the mid-term store operations come in the order  *)
(* propagation writes and save, insertions, edge registrations, final save; *)
(* there is exactly one final save and it is the last operation.            *)
C17_StoreOperationOrder ==
    (pc = "idle" /\ outcome = "ok") =>
        /\ \A i \in IndicesOf(StoreOps), j \in IndicesOf(StoreOps) :
              i < j => Phase(log[i].op) <= Phase(log[j].op)
        /\ Cardinality(IndicesOf({"save_final"})) = 1
        /\ log[Len(log)].op = "save_final"
        /\ IndicesOf({"insert_theme", "insert_fallback"}) # {}

C17_Witness ==
    /\ pc = "idle"
    /\ outcome = "ok"
    /\ IndicesOf({"save_propagation"}) # {}
    /\ Cardinality(IndicesOf({"insert_theme"})) = 2
    /\ Cardinality(IndicesOf({"update_page_connections"})) = 2

(* C18: when the summarizer returned no result or no theme, the call has    *)
(* inserted exactly once, the whole batch, under the generic summary and    *)
(* with the keywords of the one extraction made from the text of the whole  *)
(* batch; when it returned a theme there is no fallback insertion.          *)
C18_FallbackInsertion ==
    (pc \in {"finalize", "idle"} /\ outcome \in {"running", "ok"}) =>
        \A k \in SummaryAnswers :
            /\ k <= 0 =>
                  /\ IndicesOf({"insert_theme"}) = {}
                  /\ Cardinality(IndicesOf({"insert_fallback"})) = 1
                  /\ Cardinality(IndicesOf({"extract_keywords_from_multi_summary"})) = 1
                  /\ \A i \in IndicesOf({"insert_fallback"}) :
                        /\ log[i].arg = current_batch_pages
                        /\ log[i].summary =
                              "General conversation segment from short-term memory."
                        /\ \A e \in IndicesOf({"extract_keywords_from_multi_summary"}) :
                              /\ e < i
                              /\ Len(log[e].arg) = Len(evicted_qas)
                              /\ \A n \in 1..Len(evicted_qas) :
                                    log[e].arg[n] = evicted_qas[n].tid
                              /\ Range(log[i].keywords) = log[e].result
                              /\ Len(log[i].keywords) = Cardinality(log[e].result)
            /\ k >= 1 => IndicesOf({"insert_fallback"}) = {}

C18_Witness ==
    /\ pc = "idle"
    /\ outcome = "ok"
    /\ -1 \in SummaryAnswers
    /\ Len(current_batch_pages) = 2
    /\ \E i \in IndicesOf({"insert_fallback"}) : Len(log[i].keywords) = 2

(* C19: every pre_page names a page created strictly earlier, for a page of *)
(* the batch the page it was tested against; no two stored pages have the   *)
(* same pre_page.                                                           *)
C19_PrePageLinear ==
    /\ \A o \in DOMAIN pages :
          pages[o].pre_page # None =>
              /\ pages[o].pre_page # pages[o].page_id
              /\ \E o2 \in DOMAIN pages :
                    o2 < o /\ pages[o2].page_id = pages[o].pre_page
    /\ \A k \in LinkedInBatch :
          /\ Predecessor(k) # None
          /\ pages[current_batch_pages[k]].pre_page = pages[Predecessor(k)].page_id
    /\ \A a \in mid, b \in mid :
          (a # b /\ pages[a].pre_page # None) =>
              pages[a].pre_page # pages[b].pre_page

C19_Witness ==
    /\ pc = "idle"
    /\ outcome = "ok"
    /\ Cardinality(mid) = 3
    /\ \A o \in mid : o > 1 => pages[o].pre_page # None
    /\ Len(current_batch_pages) = 2

(* the continuity judgments requested before log entry i *)
JudgmentsBefore(i) ==
    Cardinality({j \in IndicesOf({"check_conversation_continuity"}) : j < i})

(* C20: a call invokes the propagation at most once and only while its      *)
(* first page is processed; while the batch is built no later page has its  *)
(* predecessor in the store, and that predecessor keeps the meta_info that  *)
(* was generated for it.                                                    *)
C20_PropagationOnlyForFirstPage ==
    /\ Cardinality(IndicesOf({"save_propagation"})) <= 1
    /\ \A i \in IndicesOf({"write_meta", "save_propagation"}) :
          JudgmentsBefore(i) = 1
    /\ \A k \in 2..Len(current_batch_pages) :
          LET pred == current_batch_pages[k - 1]
          IN  /\ pc \in {"build", "summary"} => StoredWithId(pages[pred].page_id) = {}
              /\ \E i \in IndicesOf({"generate_page_meta_info"}) :
                    /\ log[i].arg[2] = pred
                    /\ log[i].arg[3] = pages[pred].meta_info

C20_Witness ==
    /\ pc = "summary"
    /\ Len(current_batch_pages) = 2
    /\ IndicesOf({"save_propagation"}) # {}
    /\ JudgedContinuous(current_batch_pages[1], current_batch_pages[2])
    /\ pages[current_batch_pages[1]].meta_info # pages[current_batch_pages[2]].meta_info

----------------------------------------------------------------------------
(* _update_linked_pages_meta_info on an arbitrary page graph, lines 80-105, *)
(* one loop iteration per step                                              *)

NG == 2             \* pages the store holds; pointers range over ids 1..NG+1

(* the page graphs: page o has id o, pointers are None, an id of a stored   *)
(* page (cycles and self-loops included) or the id NG+1 of no stored page   *)
Graphs ==
    {[o \in 1..NG |->
         [page_id |-> o, qa |-> o, pre_page |-> f[o][1], next_page |-> f[o][2],
          meta_info |-> 1 + (o % 2)]] :
        f \in [1..NG -> (0..(NG + 1)) \X (0..(NG + 1))]}

GraphInit ==
    /\ PromoteInit
    /\ EnrichOff
    /\ LongTermOff
    /\ gpages \in Graphs
    /\ gstore = 1..NG
    /\ gstart \in 1..(NG + 1)
    /\ gmeta \in Metas
    /\ gq = <<>>
    /\ ghead = 0
    /\ gvisited = {}
    /\ gpc = "ready"
    /\ gorig = gpages
    /\ gafter = gpages
    /\ gruns = 0
    /\ gsaves = 0

(* lines 84-87; the same arguments are passed a second time *)
PropagateCall ==
    /\ gpc \in {"ready", "done"}
    /\ gruns < 2
    /\ gq' = <<gstart>>
    /\ gvisited' = {gstart}
    /\ ghead' = 1
    /\ gsaves' = 0
    /\ gpc' = "walk"
    /\ UNCHANGED <<gpages, gstore, gstart, gmeta, gorig, gafter, gruns,
                   pvars, evars, lvars>>

(* mutant: the visited test of lines 96 and 101 is missing *)
WalkIteration_no_visited(pgs, store, q, head, visited, new_meta) ==
    LET current_page_id == q[head]
        page == get_page_by_id(pgs, store, current_page_id)
    IN  IF page = None
        THEN [pages |-> pgs, q |-> q, visited |-> visited]
        ELSE LET pgs1 == [pgs EXCEPT ![page].meta_info = new_meta]
                 prev_id == pgs1[page].pre_page
                 q1 == IF prev_id # None THEN Append(q, prev_id) ELSE q
                 next_id == pgs1[page].next_page
                 q2 == IF next_id # None THEN Append(q1, next_id) ELSE q1
             IN  [pages |-> pgs1, q |-> q2, visited |-> visited \cup Range(q2)]

(* mutant: line 93 adds the new text to the old one instead of replacing it *)
WalkIteration_accumulates(pgs, store, q, head, visited, new_meta) ==
    LET current_page_id == q[head]
        page == get_page_by_id(pgs, store, current_page_id)
    IN  IF page = None
        THEN [pages |-> pgs, q |-> q, visited |-> visited]
        ELSE LET pgs1 == [pgs EXCEPT ![page].meta_info = @ + new_meta]
                 prev_id == pgs1[page].pre_page
                 addP == prev_id # None /\ prev_id \notin visited
                 q1 == IF addP THEN Append(q, prev_id) ELSE q
                 v1 == IF addP THEN visited \cup {prev_id} ELSE visited
                 next_id == pgs1[page].next_page
                 addN == next_id # None /\ next_id \notin v1
                 q2 == IF addN THEN Append(q1, next_id) ELSE q1
                 v2 == IF addN THEN v1 \cup {next_id} ELSE v1
             IN  [pages |-> pgs1, q |-> q2, visited |-> v2]

(* lines 89-103: the body of the while loop *)
WalkIteration(pgs, store, q, head, visited, new_meta) ==
    LET current_page_id == q[head]
        page == get_page_by_id(pgs, store, current_page_id)
    IN  IF page = None
        THEN [pages |-> pgs, q |-> q, visited |-> visited]
        ELSE LET pgs1 == [pgs EXCEPT ![page].meta_info = new_meta]
                 prev_id == pgs1[page].pre_page
                 addP == prev_id # None /\ prev_id \notin visited
                 q1 == IF addP THEN Append(q, prev_id) ELSE q
                 v1 == IF addP THEN visited \cup {prev_id} ELSE visited
                 next_id == pgs1[page].next_page
                 addN == next_id # None /\ next_id \notin v1
                 q2 == IF addN THEN Append(q1, next_id) ELSE q1
                 v2 == IF addN THEN v1 \cup {next_id} ELSE v1
             IN  [pages |-> pgs1, q |-> q2, visited |-> v2]

(* lines 88-103: one iteration *)
PropagateStep ==
    /\ gpc = "walk"
    /\ ghead <= Len(gq)
    /\ LET r == WalkIteration(gpages, gstore, gq, ghead, gvisited, gmeta)
       IN  /\ gpages' = r.pages
           /\ gq' = r.q
           /\ gvisited' = r.visited
    /\ ghead' = ghead + 1
    /\ UNCHANGED <<gstore, gstart, gmeta, gpc, gorig, gafter, gruns, gsaves,
                   pvars, evars, lvars>>

(* lines 88, 104-105: the loop ends, the store is saved *)
PropagateSave ==
    /\ gpc = "walk"
    /\ ghead > Len(gq)
    /\ gsaves' = IF Len(gq) > 0 THEN gsaves + 1 ELSE gsaves
    /\ gpc' = "done"
    /\ gruns' = gruns + 1
    /\ gafter' = IF gruns = 0 THEN gpages ELSE gafter
    /\ UNCHANGED <<gpages, gstore, gstart, gmeta, gq, ghead, gvisited, gorig,
                   pvars, evars, lvars>>

GraphNext ==
    \/ PropagateCall
    \/ PropagateStep
    \/ PropagateSave

GraphSpec == GraphInit /\ [][GraphNext]_vars

(* the ids of stored pages reachable from the ids in S over pre_page and    *)
(* next_page pointers of stored pages, in the graph pgs                      *)
RECURSIVE ReachableIds(_, _)
ReachableIds(pgs, S) ==
    LET stored == {id \in S : \E o \in gstore : pgs[o].page_id = id}
        more == {pgs[o].pre_page : o \in {x \in gstore : pgs[x].page_id \in stored}}
                \cup {pgs[o].next_page : o \in {x \in gstore : pgs[x].page_id \in stored}}
        S2 == stored \cup {id \in more : id # None /\ \E o \in gstore : pgs[o].page_id = id}
    IN  IF S2 = stored /\ stored = S THEN S ELSE ReachableIds(pgs, S2)

(* the graph the running/last run started from *)
GraphBeforeRun == IF gruns = 2 \/ (gruns = 1 /\ gpc = "walk") THEN gafter ELSE gorig

(* C14: the second run with the same start page and the same text leaves    *)
(* meta_info, pre_page and next_page of every page as the first run left    *)
(* them.                                                                    *)
C14_PropagationIdempotent ==
    (gruns >= 1 /\ gpc \in {"walk", "done"}) =>
        \A o \in DOMAIN gpages :
            /\ gpages[o].meta_info = gafter[o].meta_info
            /\ gpages[o].pre_page = gafter[o].pre_page
            /\ gpages[o].next_page = gafter[o].next_page

C14_Witness ==
    /\ gruns = 2
    /\ gpc = "done"
    /\ gafter # gorig
    /\ \A o \in gstore : gafter[o].meta_info = gmeta
    /\ gpages[1].next_page = 2
    /\ gpages[2].next_page = 1

(* C16: the walk never enqueues (hence never fetches) a page id twice, so   *)
(* its queue is bounded by the number of ids and the loop ends; when it has *)
(* ended, the stored pages reachable from the start page carry the new      *)
(* text, every other page is as before, and no pointer has changed.         *)
C16_WalkTerminatesOnReachable ==
    /\ gpc \in {"walk", "done"} =>
          /\ \A i \in 1..Len(gq), j \in 1..Len(gq) : i # j => gq[i] # gq[j]
          /\ Len(gq) <= NG + 1
          /\ ghead <= Len(gq) + 1
    /\ gpc = "done" =>
          /\ ghead = Len(gq) + 1
          /\ gsaves = 1
          /\ \A o \in DOMAIN gpages :
                /\ gpages[o].pre_page = gorig[o].pre_page
                /\ gpages[o].next_page = gorig[o].next_page
                /\ gpages[o].meta_info =
                      IF o \in gstore /\
                         gpages[o].page_id \in ReachableIds(gorig, {gstart})
                      THEN gmeta
                      ELSE GraphBeforeRun[o].meta_info

C16_Witness ==
    /\ gpc = "done"
    /\ gruns = 1
    /\ gorig[1].pre_page = 1
    /\ gorig[1].next_page = 2
    /\ gorig[2].next_page = 1
    /\ gorig[2].pre_page = NG + 1
    /\ gstart = 1
    /\ Len(gq) = 3

----------------------------------------------------------------------------
(* update_long_term_from_analysis, lines 206-231                            *)
(* A text (Python str) is the sequence of the code points of its            *)
(* characters.                                                              *)

MaxLines == 2       \* knowledge lines in one analysis (both texts together)

(* the printable ASCII characters in the order of their code points: 32 to *)
(* 95, and 97 to 126 (code point 96 cannot be written in a string)          *)
Printable ==
    <<" ", "!", "\"", "#", "$", "%", "&", "'", "(", ")", "*", "+",
      ",", "-", ".", "/", "0", "1", "2", "3", "4", "5", "6", "7",
      "8", "9", ":", ";", "<", "=", ">", "?", "@", "A", "B", "C",
      "D", "E", "F", "G", "H", "I", "J", "K", "L", "M", "N", "O",
      "P", "Q", "R", "S", "T", "U", "V", "W", "X", "Y", "Z", "[",
      "\\", "]", "^", "_">>

PrintableFrom97 ==
    <<"a", "b", "c", "d", "e", "f", "g", "h", "i", "j", "k", "l",
      "m", "n", "o", "p", "q", "r", "s", "t", "u", "v", "w", "x",
      "y", "z", "{", "|", "}", "~">>

(* ord(ch) of a printable ASCII character *)
ord(ch) ==
    IF \E k \in 1..Len(Printable) : Printable[k] = ch
    THEN 31 + CHOOSE k \in 1..Len(Printable) : Printable[k] = ch
    ELSE 96 + CHOOSE k \in 1..Len(PrintableFrom97) : PrintableFrom97[k] = ch

(* the text made of the given printable ASCII characters *)
text(s) == [i \in 1..Len(s) |-> ord(s[i])]

(* the characters str.strip() removes, those with str.isspace(): U+0009 to  *)
(* U+000D, U+001C to U+0020, U+0085, U+00A0, U+1680, U+2000 to U+200A,      *)
(* U+2028, U+2029, U+202F, U+205F, U+3000                                   *)
Whitespace ==
    (9..13) \cup (28..32) \cup {133, 160, 5760} \cup (8192..8202)
    \cup {8232, 8233, 8239, 8287, 12288}

(* the characters of the texts of the model: Latin-1 (ASCII included) and   *)
(* the whitespace characters                                                *)
Chars == (0..255) \cup Whitespace

(* str.lower() of one character of Chars: A-Z and U+00C0 to U+00DE (but the *)
(* multiplication sign U+00D7) have a lower-case form 32 code points up,    *)
(* the other characters of Chars are their own lower-case form              *)
lower_char ==
    [c \in Chars |->
        IF c \in (65..90) \cup (192..214) \cup (216..222) THEN c + 32 ELSE c]

(* str.lower() *)
lower(t) == [i \in 1..Len(t) |-> lower_char[t[i]]]

(* str.strip() *)
RECURSIVE strip(_)
strip(t) ==
    IF t = <<>> THEN t
    ELSE IF t[1] \in Whitespace THEN strip(Tail(t))
    ELSE IF t[Len(t)] \in Whitespace THEN strip(SubSeq(t, 1, Len(t) - 1))
    ELSE t

(* str.split('\n') *)
RECURSIVE split(_)
split(t) ==
    IF \A i \in 1..Len(t) : t[i] # 10 THEN <<t>>
    ELSE LET i == CHOOSE k \in 1..Len(t) :
                      t[k] = 10 /\ \A j \in 1..(k - 1) : t[j] # 10
         IN  <<SubSeq(t, 1, i - 1)>> \o split(SubSeq(t, i + 1, Len(t)))

(* '\n'.join(lines), how the analysis texts are put together *)
RECURSIVE join(_)
join(lines) ==
    IF Len(lines) = 1 THEN lines[1]
    ELSE lines[1] \o <<10>> \o join(Tail(lines))

none_text == text(<<"n", "o", "n", "e">>)
bullet_none == text(<<"-", " ", "n", "o", "n", "e">>)
bullet_none_dot == text(<<"-", " ", "n", "o", "n", "e", ".">>)

(* the lines the analysis texts are made of *)
Lines ==
    { text(<<"N", "o", "n", "e">>),
      text(<<"-", " ", "n", "o", "n", "e">>),
      text(<<" ", "-", " ", "N", "O", "N", "E", ".", " ">>),
      <<>>,
      <<32, 8232>>,
      text(<<"-", " ", "i", "t", "e", "m", " ", "A">>),
      text(<<" ", "n", "o", "n", "e", ".">>),
      (<<12, 5760, 28>> \o text(<<"n", "o", "n", "e">>) \o <<11, 12288, 160>>) }

(* the texts of k lines *)
TextsOf(k) == {join(ls) : ls \in [1..k -> Lines]}

(* a value of the analysis dict: the key is missing (get returns None)      *)
(* or holds a text                                                          *)
Missing == [none |-> TRUE, text |-> <<>>]
Value(t) == [none |-> FALSE, text |-> t]

ProfileValues ==
    {Missing,
     Value(<<>>),
     Value(text(<<"N", "o", "n", "e">>)),
     Value(text(<<"n", "o", "n", "e">>)),
     Value(text(<<"n", "o", "n", "e", " ">>)),
     Value(text(<<"l", "i", "k", "e", "s", " ", "t", "e", "a">>))}

KnowledgeValues(k) == IF k = 0 THEN {Missing} ELSE {Value(t) : t \in TextsOf(k)}

Analyses ==
    {[present |-> FALSE]} \cup
    UNION {
        {[present |-> TRUE, profile |-> p, private |-> u, assistant_knowledge |-> a] :
            p \in ProfileValues, u \in KnowledgeValues(k1), a \in KnowledgeValues(k2)} :
        <<k1, k2>> \in {kk \in (0..MaxLines) \X (0..MaxLines) : kk[1] + kk[2] <= MaxLines}}

old_profile == text(<<"o", "l", "d">>)
old_item == text(<<"-", " ", "o", "l", "d", " ", "i", "t", "e", "m">>)

LongTermInit ==
    /\ PromoteInit
    /\ EnrichOff
    /\ GraphOff
    /\ analysis \in Analyses
    /\ lt_profile \in {<<>>, old_profile}
    /\ user_knowledge \in {<<>>, <<old_item>>}
    /\ assistant_knowledge = <<>>
    /\ lt_calls = <<>>
    /\ lt_before = <<>>
    /\ lpc = "ready"

(* lines 214/219/226: `if text and text.lower() != "none"` *)
(* mutant: the comparison is case sensitive *)
is_given_case_sensitive(v) ==
    /\ ~v.none
    /\ v.text # <<>>
    /\ v.text # none_text

is_given(v) ==
    /\ ~v.none
    /\ v.text # <<>>
    /\ lower(v.text) # none_text

(* lines 220-222 and 227-229: the stripped lines handed to the store *)
(* mutant: only the bare "none" is discarded *)
RECURSIVE kept_lines_bare_none_only(_)
kept_lines_bare_none_only(lines) ==
    IF lines = <<>> THEN <<>>
    ELSE LET line == Head(lines)
             rest == kept_lines_bare_none_only(Tail(lines))
         IN  IF strip(line) # <<>> /\ lower(strip(line)) # none_text
             THEN <<strip(line)>> \o rest
             ELSE rest

RECURSIVE kept_lines(_)
kept_lines(lines) ==
    IF lines = <<>> THEN <<>>
    ELSE LET line == Head(lines)
             rest == kept_lines(Tail(lines))
         IN  IF strip(line) # <<>> /\
                lower(strip(line)) \notin {none_text, bullet_none, bullet_none_dot}
             THEN <<strip(line)>> \o rest
             ELSE rest

(* lines 219-223 and 226-231: the texts passed to add_*_knowledge *)
knowledge_items(v) ==
    IF is_given(v) THEN kept_lines(split(v.text)) ELSE <<>>

(* the call records of the long-term store *)
ProfileCall(t) == [op |-> "update_user_profile", text |-> t, merge |-> FALSE]
KnowledgeCall(op, t) == [op |-> op, text |-> t, merge |-> FALSE]
KnowledgeCalls(op, items) == [i \in 1..Len(items) |-> KnowledgeCall(op, items[i])]

(* the long-term store: the profile is replaced (merge=False), knowledge is *)
(* appended                                                                 *)
update_user_profile(profile, t) == t
add_knowledge(knowledge, items) == knowledge \o items

(* lines 206-231: the whole method *)
UpdateLongTerm ==
    /\ lpc = "ready"
    /\ lt_before' = [profile |-> lt_profile, user_knowledge |-> user_knowledge,
                     assistant_knowledge |-> assistant_knowledge]
    /\ IF ~analysis.present
       THEN UNCHANGED <<lt_profile, user_knowledge, assistant_knowledge, lt_calls>>
       ELSE LET user_items == knowledge_items(analysis.private)
                assistant_items == knowledge_items(analysis.assistant_knowledge)
            IN  /\ lt_profile' = IF is_given(analysis.profile)
                                 THEN update_user_profile(lt_profile, analysis.profile.text)
                                 ELSE lt_profile
                /\ user_knowledge' = add_knowledge(user_knowledge, user_items)
                /\ assistant_knowledge' = add_knowledge(assistant_knowledge, assistant_items)
                /\ lt_calls' =
                      (IF is_given(analysis.profile)
                       THEN <<ProfileCall(analysis.profile.text)>> ELSE <<>>)
                      \o KnowledgeCalls("add_user_knowledge", user_items)
                      \o KnowledgeCalls("add_assistant_knowledge", assistant_items)
    /\ lpc' = "done"
    /\ UNCHANGED <<analysis, pvars, evars, gvars>>

LongTermNext == UpdateLongTerm

LongTermSpec == LongTermInit /\ [][LongTermNext]_vars

(* the texts passed to add_user_knowledge / add_assistant_knowledge *)
PassedTo(op) ==
    LET idx == {i \in 1..Len(lt_calls) : lt_calls[i].op = op}
    IN  {lt_calls[i].text : i \in idx}

(* C11: no text passed to add_user_knowledge or add_assistant_knowledge is  *)
(* blank or, trimmed and lower-cased, one of "none", "- none", "- none.".   *)
C11_NoneLinesNeverPassed ==
    \A t \in PassedTo("add_user_knowledge") \cup PassedTo("add_assistant_knowledge") :
        /\ strip(t) # <<>>
        /\ lower(strip(t)) # text(<<"n", "o", "n", "e">>)
        /\ lower(strip(t)) # text(<<"-", " ", "n", "o", "n", "e">>)
        /\ lower(strip(t)) # text(<<"-", " ", "n", "o", "n", "e", ".">>)

C11_Witness ==
    /\ lpc = "done"
    /\ analysis.present
    /\ ~analysis.private.none
    /\ analysis.private.text =
          (text(<<" ", "-", " ", "N", "O", "N", "E", ".", " ">>) \o <<10>> \o text(<<"-", " ", "i", "t", "e", "m", " ", "A">>))
    /\ PassedTo("add_user_knowledge") = {text(<<"-", " ", "i", "t", "e", "m", " ", "A">>)}

(* a line that is neither blank nor a form of "none" *)
Survives(line) ==
    /\ \E i \in 1..Len(line) : line[i] \notin Whitespace
    /\ lower(strip(line)) \notin {text(<<"n", "o", "n", "e">>),
                                  text(<<"-", " ", "n", "o", "n", "e">>),
                                  text(<<"-", " ", "n", "o", "n", "e", ".">>)}

SurvivingPrivateLines ==
    IF ~analysis.present \/ analysis.private.none THEN <<>>
    ELSE LET lines == split(analysis.private.text)
             idx == {i \in 1..Len(lines) : Survives(lines[i])}
         IN  [n \in 1..Cardinality(idx) |->
                 lines[CHOOSE i \in idx : Cardinality({j \in idx : j <= i}) = n]]

UserItemsAdded ==
    SubSeq(user_knowledge, Len(lt_before.user_knowledge) + 1, Len(user_knowledge))

ProfileIsNone ==
    /\ analysis.present
    /\ ~analysis.profile.none
    /\ lower(analysis.profile.text) = text(<<"n", "o", "n", "e">>)

(* a profile text that is "none" in any case leaves the profile alone *)
NoneProfileIgnored ==
    (lpc = "done" /\ ProfileIsNone) =>
        /\ lt_profile = lt_before.profile
        /\ \A i \in 1..Len(lt_calls) : lt_calls[i].op # "update_user_profile"

(* one user knowledge item is appended per surviving private line *)
OneItemPerSurvivingLine ==
    lpc = "done" =>
        /\ Len(user_knowledge) =
              Len(lt_before.user_knowledge) + Len(SurvivingPrivateLines)
        /\ SubSeq(user_knowledge, 1, Len(lt_before.user_knowledge)) =
              lt_before.user_knowledge

ScenarioPrivate ==
    /\ analysis.present
    /\ ~analysis.private.none
    /\ analysis.private.text =
          (text(<<"-", " ", "i", "t", "e", "m", " ", "A">>) \o <<10>> \o text(<<"-", " ", "n", "o", "n", "e">>))

(* C12 as stated: a "none" profile is ignored, one item is appended per     *)
(* surviving private line, and "- item A\n- none" adds the one item         *)
(* "item A".                                                                *)
C12_AsStated ==
    /\ NoneProfileIgnored
    /\ OneItemPerSurvivingLine
    /\ (lpc = "done" /\ ScenarioPrivate) =>
          UserItemsAdded = << text(<<"i", "t", "e", "m", " ", "A">>) >>

(* C12 as amended: a "none" profile is ignored, one item is appended per    *)
(* surviving private line, each the trimmed line itself with its bullet,    *)
(* and "- item A\n- none" adds the one item "- item A".                     *)
C12_OneItemPerLineBulletKept ==
    /\ NoneProfileIgnored
    /\ OneItemPerSurvivingLine
    /\ lpc = "done" =>
          UserItemsAdded =
              [n \in 1..Len(SurvivingPrivateLines) |-> strip(SurvivingPrivateLines[n])]
    /\ (lpc = "done" /\ ScenarioPrivate) =>
          UserItemsAdded = << text(<<"-", " ", "i", "t", "e", "m", " ", "A">>) >>

C12_Witness ==
    /\ lpc = "done"
    /\ ProfileIsNone
    /\ analysis.profile.text = text(<<"N", "o", "n", "e">>)
    /\ ScenarioPrivate
    /\ lt_before.profile = text(<<"o", "l", "d">>)
    /\ lt_profile = text(<<"o", "l", "d">>)
    /\ Len(lt_before.user_knowledge) = 1
    /\ Len(user_knowledge) = 2

====
